---- MODULE Spec2Model ----
(***************************************************************************)
(* Model of the planning-poker room store (roomStore): the in-memory room  *)
(* table of each browser tab, the localStorage item shared by the tabs of  *)
(* one origin, the BroadcastChannel between the tabs and the listener set  *)
(* of each tab.  One action per exported operation and per event handler.  *)
(* Strings that the code trims or splits are sequences of one-character    *)
(* strings; identifiers are plain strings.                                 *)
(***************************************************************************)
EXTENDS Integers, Sequences, FiniteSets, TLC

\* ---------------------------------------------------------------- bounds
NumTabs == 2
MaxOps == 2
MaxFaults == 1
NumListeners == 1
\* The longest text given to parseCustomDeck, the number of calls after
\* which no custom room is created (MaxForms), and the sizes of a custom
\* deck list passed to createRoom.
MaxTextLen == 4
MaxForms == 1
MaxDeckLen == 2
MaxEntryLen == 2

Tabs == 1..NumTabs
ListenerIds == 1..NumListeners

\* A listener is a function of one tab's page: listener l lives in TabOf(l).
TabOf(l) == ((l - 1) % NumTabs) + 1

\* ------------------------------------------------------------ input sets
\* The ids generateRoomId can return, and the ids callers pass as roomId
\* and as participant id: the exported operations take any string, an id
\* the program generated or a name every object inherits.
RoomIds == {"K7QZ-1A2B", "M3XD-9F0C"}
TargetRoomIds == {"K7QZ-1A2B", "toString"}
ParticipantIds == {"USR-AAAAAA", "USR-BBBBBB", "constructor"}
\* The <<roomId, participantId>> callers pass: every participant id with
\* the room id the program generated, one with the inherited name.
ParticipantTargets ==
  ({"K7QZ-1A2B"} \X ParticipantIds) \cup {<<"toString", "USR-AAAAAA">>}
\* null, and a string where null may stand instead: a vote is null or the
\* text of a card, and the card whose text is "null" is not null.
NULL == [isNull |-> TRUE, text |-> ""]
Str(text) == [isNull |-> FALSE, text |-> text]

\* Card values are opaque to the store.
VoteValues == {Str("5"), Str("null")}

UNDEFINED == "undefined"
NoItem == [kind |-> "absent"]
Garbage == [kind |-> "garbage"]

\* WhiteSpace and LineTerminator of ECMAScript, what String.prototype.trim
\* strips and \s matches; a character without an escape is written as its
\* code point.
Whitespace ==
  {" ", "\t", "\n", "\f", "\r", "U+000B", "U+00A0", "U+1680",
   "U+2000", "U+2001", "U+2002", "U+2003", "U+2004", "U+2005", "U+2006",
   "U+2007", "U+2008", "U+2009", "U+200A", "U+2028", "U+2029", "U+202F",
   "U+205F", "U+3000", "U+FEFF"}

\* The single character U+2615 (hot beverage) of the preset decks.
COFFEE == "U+2615"

\* ------------------------------------------------------- string helpers
RECURSIVE TrimStart(_)
TrimStart(s) ==
  IF s # <<>> /\ Head(s) \in Whitespace THEN TrimStart(Tail(s)) ELSE s

RECURSIVE TrimEnd(_)
TrimEnd(s) ==
  IF s # <<>> /\ s[Len(s)] \in Whitespace
    THEN TrimEnd(SubSeq(s, 1, Len(s) - 1))
    ELSE s

Trim(s) == TrimEnd(TrimStart(s))

\* ---------------------------------------------------------- map helpers
EmptyTable == [k \in {} |-> NULL]

MapPut(f, k, v) == [x \in (DOMAIN f) \cup {k} |-> IF x = k THEN v ELSE f[x]]

MapDel(f, k) == [x \in (DOMAIN f) \ {k} |-> f[x]]

\* The property names every plain object inherits from Object.prototype:
\* the `in` operator and a property read find them on any table, any
\* participants object and any votes object, Object.keys and JSON do not.
ProtoNames ==
  {"constructor", "toString", "toLocaleString", "valueOf", "hasOwnProperty",
   "isPrototypeOf", "propertyIsEnumerable", "__proto__", "__defineGetter__",
   "__defineSetter__", "__lookupGetter__", "__lookupSetter__"}

\* `k in obj` for a plain object whose own keys are `keys`.
HasProperty(keys, k) == k \in keys \cup ProtoNames

\* obj[k] is a value inherited from Object.prototype (a function, or the
\* prototype itself): truthy, and without own enumerable properties.  A
\* property an earlier revealVotes set on such a value is not followed.
IsInherited(keys, k) == k \notin keys /\ k \in ProtoNames

\* obj[k] = v for a votes object or a table: assigning to "__proto__"
\* where it is no own key calls the inherited setter and adds no key.
MapSet(f, k, v) ==
  IF k = "__proto__" /\ k \notin DOMAIN f THEN f ELSE MapPut(f, k, v)

\* A participants object: its own properties <<key, value>> in property
\* order, which for keys that are not array indices is the order of
\* insertion.
Entry(key, value) == [key |-> key, value |-> value]

ObjectKeys(ps) == [i \in DOMAIN ps |-> ps[i].key]

KeySet(ps) == {ps[i].key : i \in DOMAIN ps}

ObjGet(ps, id) == ps[CHOOSE i \in DOMAIN ps : ps[i].key = id].value

\* ps[key] = value, with the same rule for "__proto__" as MapSet.
ObjPut(ps, key, value) ==
  IF key \in KeySet(ps)
    THEN [i \in DOMAIN ps |->
            IF ps[i].key = key THEN Entry(key, value) ELSE ps[i]]
    ELSE IF key = "__proto__" THEN ps
    ELSE Append(ps, Entry(key, value))

ObjDelTest(q, id) == q.key # id

ObjDel(ps, id) == SelectSeq(ps, LAMBDA q : ObjDelTest(q, id))

\* {...a, ...b} of two records.
NoProperties == [f \in {} |-> ""]

Spread(a, b) ==
  [f \in (DOMAIN a) \cup (DOMAIN b) |-> IF f \in DOMAIN b THEN b[f] ELSE a[f]]

\* ------------------------------------------------------------ constants
STORAGE_KEY == "planning-poker-rooms"
BROADCAST_KEY == "planning-poker-sync"

SalaSemNome == <<"S","a","l","a"," ","s","e","m"," ","n","o","m","e">>
\* The reason text of a failed join, without its diacritic.
SalaNaoEncontrada == "Sala nao encontrada."

PRESET_DECKS ==
  [fibonacci |-> << <<"0">>, <<"1">>, <<"2">>, <<"3">>, <<"5">>, <<"8">>,
                    <<"1","3">>, <<"2","1">>, <<"3","4">>, <<"5","5">>,
                    <<"8","9">>, <<"?">>, <<COFFEE>> >>,
   numeric   |-> << <<"0">>, <<"1">>, <<"2">>, <<"3">>, <<"4">>, <<"5">>,
                    <<"6">>, <<"7">>, <<"8">>, <<"9">>, <<"1","0">>,
                    <<"?">>, <<COFFEE>> >>]

\* -------------------------------------------------------- serialization
\* JSON.stringify of a table: a text distinct from the table itself.  The
\* tables of this model hold strings, numbers, booleans, null, arrays and
\* plain objects only, which JSON.parse gives back field by field.
JSONStringify(v) == [kind |-> "json", value |-> v]

\* A stored text parses when JSON.stringify produced it ("json") or when
\* it is a table some other writer left under the key ("legacy").
IsParsable(text) == text.kind \in {"json", "legacy"}

\* JSON.parse of a text of JSONStringify: the table it was made from.
JSONParse(text) == text.value

\* A JSON value of any type, as loadRooms meets it in a parsed room:
\* t names the type and one of b, n, s, items holds the value.
JsValue(t, b, n, s, items) ==
  [t |-> t, b |-> b, n |-> n, s |-> s, items |-> items]

JsUndefined == JsValue("undefined", FALSE, 0, <<>>, <<>>)
JsNull == JsValue("null", FALSE, 0, <<>>, <<>>)
JsObj == JsValue("object", FALSE, 0, <<>>, <<>>)
JsBool(b) == JsValue("boolean", b, 0, <<>>, <<>>)
JsNum(n) == JsValue("number", FALSE, n, <<>>, <<>>)
JsStr(s) == JsValue("string", FALSE, 0, s, <<>>)
JsArr(items) == JsValue("array", FALSE, 0, <<>>, items)

\* Array.isArray
IsArray(v) == v.t = "array"

DigitChars == <<"0","1","2","3","4","5","6","7","8","9">>

\* The decimal digits of a natural number.
RECURSIVE NumStr(_)
NumStr(n) ==
  IF n < 10 THEN <<DigitChars[n + 1]>>
  ELSE NumStr(n \div 10) \o <<DigitChars[(n % 10) + 1]>>

\* String(value), for the values a deck array can hold (no nested array).
JsString(v) ==
  CASE v.t = "string" -> v.s
    [] v.t = "number" -> NumStr(v.n)
    [] v.t = "boolean" -> IF v.b THEN <<"t","r","u","e">>
                                 ELSE <<"f","a","l","s","e">>
    [] v.t = "null" -> <<"n","u","l","l">>
    [] v.t = "undefined" -> <<"u","n","d","e","f","i","n","e","d">>
    [] v.t = "object" ->
         <<"[","o","b","j","e","c","t"," ","O","b","j","e","c","t","]">>

\* Boolean(value)
JsBoolean(v) ==
  CASE v.t = "boolean" -> v.b
    [] v.t = "number" -> v.n # 0
    [] v.t = "string" -> v.s # <<>>
    [] v.t \in {"null", "undefined"} -> FALSE
    [] v.t \in {"array", "object"} -> TRUE

\* A room of a table of this model as JSON.parse returns it from storage:
\* the two fields loadRooms inspects are values of any type.
RawRoom(room) ==
  [room EXCEPT
     !.deckValues = JsArr([i \in DOMAIN room.deckValues |->
                             JsStr(room.deckValues[i])]),
     !.revealed = JsBool(room.revealed)]

\* JSON.parse of a stored text, as loadRooms sees the result.
ParseStored(text) ==
  IF text.kind = "json"
    THEN [r \in DOMAIN text.value |-> RawRoom(text.value[r])]
    ELSE text.value

\* The room of this model a parsed room stands for, once its two
\* inspected fields hold an array of strings and a boolean.
TypedRoom(room) ==
  [room EXCEPT
     !.deckValues = [i \in DOMAIN room.deckValues.items |->
                       room.deckValues.items[i].s],
     !.revealed = room.revealed.b]

\* The sanitising loop without the String() of the deck entries.
SanitizeRoom_noString(room) ==
  [room EXCEPT
     !.deckValues = IF ~IsArray(room.deckValues)
                      THEN JsArr(<<>>)
                      ELSE room.deckValues,
     !.revealed = JsBool(JsBoolean(room.revealed))]

SanitizeRoom(room) ==
  [room EXCEPT
     !.deckValues = IF ~IsArray(room.deckValues)
                      THEN JsArr(<<>>)
                      ELSE JsArr([i \in DOMAIN room.deckValues.items |->
                                    JsStr(JsString(room.deckValues.items[i]))]),
     !.revealed = JsBool(JsBoolean(room.revealed))]

\* The empty string under the key.
EmptyText == [kind |-> "empty"]

\* What the body of loadRooms comes to: whether an exception leaves the
\* function, and the table returned, its rooms as sanitised.
LoadOutcome(stored) ==
  IF stored \in {NoItem, EmptyText}
    THEN [thrown |-> FALSE, value |-> EmptyTable]
  ELSE IF ~IsParsable(stored)
    THEN [thrown |-> FALSE, value |-> EmptyTable]
  ELSE LET parsed == ParseStored(stored)
       IN [thrown |-> FALSE,
           value |-> [r \in DOMAIN parsed |-> SanitizeRoom(parsed[r])]]

loadRooms(stored) ==
  LET value == LoadOutcome(stored).value
  IN [r \in DOMAIN value |-> TypedRoom(value[r])]

\* ------------------------------------------------------ deck resolution
NonEmptyStr(s) == Len(s) > 0

\* customDeck is [given |-> FALSE] for an omitted argument.
resolveDeck(deckType, customDeck) ==
  IF deckType = "custom"
    THEN LET given == IF customDeck.given THEN customDeck.value ELSE <<>>
             trimmed == [i \in DOMAIN given |-> Trim(given[i])]
             deck == SelectSeq(trimmed, NonEmptyStr)
         IN IF Len(deck) > 0 THEN deck ELSE << <<"?">> >>
    ELSE PRESET_DECKS[deckType]

\* ---------------------------------------------------- the creation form
\* The number of whitespace characters of s from position q on.
RECURSIVE WsRun(_, _)
WsRun(s, q) ==
  IF q <= Len(s) /\ s[q] \in Whitespace THEN 1 + WsRun(s, q + 1) ELSE 0

\* The position after the match of /\s*[,\n]\s*/ that starts at q, or 0
\* when there is none: the greedy \s* takes the whole whitespace run, and
\* gives characters back only to let [,\n] take a newline of that run.
SepEnd(s, q) ==
  LET m == WsRun(s, q)
  IN IF q + m <= Len(s) /\ s[q + m] = ","
       THEN q + m + 1 + WsRun(s, q + m + 1)
       ELSE IF \E k \in 0..(m - 1) : s[q + k] = "\n" THEN q + m ELSE 0

\* The same for /\s*,\s*/.
SepEnd_commaOnly(s, q) ==
  LET m == WsRun(s, q)
  IN IF q + m <= Len(s) /\ s[q + m] = ","
       THEN q + m + 1 + WsRun(s, q + m + 1)
       ELSE 0

\* String.prototype.split on the separator: p is where the current piece
\* starts and q the position at which a match is tried next.
RECURSIVE SplitFrom(_, _, _)
SplitFrom(s, p, q) ==
  IF q > Len(s) THEN <<SubSeq(s, p, Len(s))>>
  ELSE IF SepEnd(s, q) = 0 THEN SplitFrom(s, p, q + 1)
  ELSE <<SubSeq(s, p, q - 1)>> \o SplitFrom(s, SepEnd(s, q), SepEnd(s, q))

RECURSIVE SplitFrom_commaOnly(_, _, _)
SplitFrom_commaOnly(s, p, q) ==
  IF q > Len(s) THEN <<SubSeq(s, p, Len(s))>>
  ELSE IF SepEnd_commaOnly(s, q) = 0 THEN SplitFrom_commaOnly(s, p, q + 1)
  ELSE <<SubSeq(s, p, q - 1)>>
         \o SplitFrom_commaOnly(s, SepEnd_commaOnly(s, q), SepEnd_commaOnly(s, q))

\* parseCustomDeck that splits on commas only.
parseCustomDeck_commaOnly(input) ==
  LET pieces == SplitFrom_commaOnly(input, 1, 1)
      trimmed == [i \in DOMAIN pieces |-> Trim(pieces[i])]
  IN SelectSeq(trimmed, NonEmptyStr)

parseCustomDeck(input) ==
  LET pieces == SplitFrom(input, 1, 1)
      trimmed == [i \in DOMAIN pieces |-> Trim(pieces[i])]
  IN SelectSeq(trimmed, NonEmptyStr)

ProfileA ==
  [id |-> "USR-AAAAAA", name |-> <<"A", "n", "a">>, avatarColor |-> "#3498db", joinedAt |-> 1]
ProfileA2 ==
  [id |-> "USR-AAAAAA", name |-> <<"B", "i", "a">>, avatarColor |-> "#e74c3c", joinedAt |-> 2]
ProfileB ==
  [id |-> "USR-BBBBBB", name |-> <<"B", "i", "a">>, avatarColor |-> "#3498db", joinedAt |-> 1]

\* A profile whose id is a name every object inherits.
ProfileNamed ==
  [id |-> "constructor", name |-> <<"Z", "e", "d">>, avatarColor |-> "#2ecc71", joinedAt |-> 3]

\* The options callers pass to createRoom, with the id generateRoomId
\* returns and the value of Date.now().
CreateRoomInputs ==
  { [id |-> "M3XD-9F0C", now |-> 1,
     options |-> [name |-> <<"S","1">>, deckType |-> "fibonacci",
                  customDeck |-> [given |-> FALSE, value |-> <<>>],
                  host |-> ProfileA]],
    [id |-> "K7QZ-1A2B", now |-> 2,
     options |-> [name |-> <<" ">>, deckType |-> "custom",
                  customDeck |-> [given |-> TRUE,
                                  value |-> << <<" ","1">>, <<>>, <<"2">>,
                                               <<"1">> >>],
                  host |-> ProfileB]] }

\* The profiles callers pass to joinRoom.
Profiles == {ProfileA2, ProfileB, ProfileNamed}

\* The <<roomId, profile>> callers pass to joinRoom.
JoinTargets == ({"K7QZ-1A2B"} \X Profiles) \cup {<<"toString", ProfileB>>}

\* ------------------------------------------------------------- mutators
\* The closures handed to updateRooms, as data: [op |-> ..., arguments].
createRoomMutator(draft, m) == MapSet(draft, m.id, m.room)

joinRoomMutator(draft, m) ==
  IF m.roomId \notin DOMAIN draft THEN draft
  ELSE
    LET room == draft[m.roomId]
        \* an inherited value and an entry without the field have no
        \* joinedAt
        joinedAt ==
          IF /\ m.profile.id \in KeySet(room.participants)
             /\ "joinedAt" \in DOMAIN ObjGet(room.participants, m.profile.id)
            THEN ObjGet(room.participants, m.profile.id).joinedAt
            ELSE m.profile.joinedAt
        entry == [id |-> m.profile.id, name |-> m.profile.name,
                  avatarColor |-> m.profile.avatarColor, joinedAt |-> joinedAt]
        votes == IF HasProperty(DOMAIN room.votes, m.profile.id)
                   THEN room.votes
                   ELSE MapSet(room.votes, m.profile.id, NULL)
    IN [draft EXCEPT ![m.roomId] =
          [room EXCEPT
             !.participants = ObjPut(room.participants, m.profile.id, entry),
             !.votes = votes]]

\* leaveRoom without the reassignment of a departing host.
leaveRoomMutator_keepsHost(draft, m) ==
  IF m.roomId \notin DOMAIN draft THEN draft
  ELSE
    LET room == draft[m.roomId]
        participants == ObjDel(room.participants, m.participantId)
        votes == MapDel(room.votes, m.participantId)
    IN IF Len(participants) = 0
         THEN MapDel(draft, m.roomId)
         ELSE [draft EXCEPT ![m.roomId] =
                 [room EXCEPT !.participants = participants, !.votes = votes]]

\* leaveRoom without the deletion of a room left empty.
leaveRoomMutator_keepsEmptyRoom(draft, m) ==
  IF m.roomId \notin DOMAIN draft THEN draft
  ELSE
    LET room == draft[m.roomId]
        participants == ObjDel(room.participants, m.participantId)
        votes == MapDel(room.votes, m.participantId)
        remainingIds == ObjectKeys(participants)
    IN [draft EXCEPT ![m.roomId] =
          [room EXCEPT
             !.participants = participants,
             !.votes = votes,
             !.hostId = IF room.hostId = m.participantId /\ Len(remainingIds) > 0
                          THEN remainingIds[1] ELSE room.hostId]]

\* leaveRoom that deletes the participant but not the vote slot.
leaveRoomMutator_keepsVote(draft, m) ==
  IF m.roomId \notin DOMAIN draft THEN draft
  ELSE
    LET room == draft[m.roomId]
        participants == ObjDel(room.participants, m.participantId)
        remainingIds == ObjectKeys(participants)
    IN IF Len(remainingIds) = 0
         THEN MapDel(draft, m.roomId)
         ELSE [draft EXCEPT ![m.roomId] =
                 [room EXCEPT
                    !.participants = participants,
                    !.hostId = IF room.hostId = m.participantId
                                 THEN remainingIds[1] ELSE room.hostId]]

leaveRoomMutator(draft, m) ==
  IF m.roomId \notin DOMAIN draft THEN draft
  ELSE
    LET room == draft[m.roomId]
        participants == ObjDel(room.participants, m.participantId)
        votes == MapDel(room.votes, m.participantId)
        remainingIds == ObjectKeys(participants)
    IN IF Len(remainingIds) = 0
         THEN MapDel(draft, m.roomId)
         ELSE [draft EXCEPT ![m.roomId] =
                 [room EXCEPT
                    !.participants = participants,
                    !.votes = votes,
                    !.hostId = IF room.hostId = m.participantId
                                 THEN remainingIds[1] ELSE room.hostId,
                    !.revealed = IF room.revealed /\ Len(remainingIds) = 0
                                   THEN FALSE ELSE room.revealed]]

updateParticipantProfileMutator(draft, m) ==
  IF m.roomId \notin DOMAIN draft THEN draft
  ELSE
    LET room == draft[m.roomId]
    IN IF ~HasProperty(KeySet(room.participants), m.participantId) THEN draft
       ELSE
         LET participant ==
               IF m.participantId \in KeySet(room.participants)
                 THEN ObjGet(room.participants, m.participantId)
                 ELSE NoProperties
             merged == Spread(participant, m.updates)
         IN [draft EXCEPT ![m.roomId] =
               [room EXCEPT
                  !.participants =
                    ObjPut(room.participants, m.participantId, merged)]]

\* submitVote that leaves the revealed flag alone when a vote is cleared.
submitVoteMutator_keepsRevealed(draft, m) ==
  IF m.roomId \notin DOMAIN draft THEN draft
  ELSE
    LET room == draft[m.roomId]
    IN IF ~HasProperty(KeySet(room.participants), m.participantId) THEN draft
       ELSE [draft EXCEPT ![m.roomId] =
               [room EXCEPT
                  !.votes = MapSet(room.votes, m.participantId, m.value)]]

submitVoteMutator(draft, m) ==
  IF m.roomId \notin DOMAIN draft THEN draft
  ELSE
    LET room == draft[m.roomId]
    IN IF ~HasProperty(KeySet(room.participants), m.participantId) THEN draft
       ELSE [draft EXCEPT ![m.roomId] =
               [room EXCEPT
                  !.votes = MapSet(room.votes, m.participantId, m.value),
                  !.revealed = IF m.value = NULL THEN FALSE ELSE room.revealed]]

\* revealVotes that reveals only once some card has been chosen.
revealVotesMutator_needsVote(draft, m) ==
  IF m.roomId \notin DOMAIN draft THEN draft
  ELSE IF \A k \in DOMAIN draft[m.roomId].votes : draft[m.roomId].votes[k] = NULL
    THEN draft
    ELSE [draft EXCEPT ![m.roomId] = [draft[m.roomId] EXCEPT !.revealed = TRUE]]

\* revealVotes that reveals every room of the table once the room exists.
revealVotesMutator_allRooms(draft, m) ==
  IF m.roomId \notin DOMAIN draft THEN draft
  ELSE [r \in DOMAIN draft |-> [draft[r] EXCEPT !.revealed = TRUE]]

revealVotesMutator(draft, m) ==
  IF m.roomId \notin DOMAIN draft THEN draft
  ELSE [draft EXCEPT ![m.roomId] = [draft[m.roomId] EXCEPT !.revealed = TRUE]]

resetVotesMutator(draft, m) ==
  IF m.roomId \notin DOMAIN draft THEN draft
  ELSE
    LET room == draft[m.roomId]
    IN [draft EXCEPT ![m.roomId] =
          [room EXCEPT !.votes = [k \in DOMAIN room.votes |-> NULL],
                       !.revealed = FALSE]]

transferHostMutator(draft, m) ==
  IF m.roomId \notin DOMAIN draft THEN draft
  ELSE
    LET room == draft[m.roomId]
    IN IF ~HasProperty(KeySet(room.participants), m.newHostId) THEN draft
       ELSE [draft EXCEPT ![m.roomId] = [room EXCEPT !.hostId = m.newHostId]]

\* The mutator throws a TypeError: draft[roomId] is a value inherited from
\* Object.prototype, which passes `if (!room) return` and has neither
\* participants nor votes to read.  revealVotes only sets a property on
\* the inherited value, which is no part of the table, and does not throw.
mutatorThrows(draft, m) ==
  /\ m.op \in {"joinRoom", "leaveRoom", "updateParticipantProfile",
              "submitVote", "resetVotes", "transferHost"}
  /\ IsInherited(DOMAIN draft, m.roomId)

\* The table a mutator that does not throw leaves in draft.
applyMutator(draft, m) ==
  CASE m.op = "createRoom" -> createRoomMutator(draft, m)
    [] m.op = "joinRoom" -> joinRoomMutator(draft, m)
    [] m.op = "leaveRoom" -> leaveRoomMutator(draft, m)
    [] m.op = "updateParticipantProfile" -> updateParticipantProfileMutator(draft, m)
    [] m.op = "submitVote" -> submitVoteMutator(draft, m)
    [] m.op = "revealVotes" -> revealVotesMutator(draft, m)
    [] m.op = "resetVotes" -> resetVotesMutator(draft, m)
    [] m.op = "transferHost" -> transferHostMutator(draft, m)
    [] m.op = "none" -> draft

\* ------------------------------------------------------------ the store
VARIABLES
  rooms,       \* rooms[t]: the table `rooms` of tab t
  listeners,   \* listeners[t]: the Set `listeners` of tab t
  storage,     \* the localStorage item STORAGE_KEY, shared by the tabs
  chan,        \* chan[<<s, d>>]: messages posted by tab s, not yet handled by d
  sent,        \* history: for each message of chan, the sender's table right
               \* after the mutation that posted it
  last,        \* history: what the most recent call or event did
  ops,         \* number of mutation calls made so far
  faults,      \* number of storage or channel failures so far
  serialized   \* history: no tab has committed while another tab's message
               \* was in flight, and every commit posted its message

vars == <<rooms, listeners, storage, chan, sent, last, ops, faults, serialized>>

isBrowser == TRUE
channel == IF isBrowser THEN Str(BROADCAST_KEY) ELSE NULL

Links == {p \in Tabs \X Tabs : p[1] # p[2]}

\* The part of the state one call or event handler of tab t runs on, and
\* what it has done so far: the effects completed in order (log), the
\* messages posted, how often each listener ran and what a listener could
\* read when it ran, whether an exception is propagating (thrown) and
\* whether it is a TypeError of the mutator.
World(t, fault) ==
  [rooms |-> rooms[t], listeners |-> listeners[t], storage |-> storage,
   persistFails |-> (fault = "setItem"), postFails |-> (fault = "postMessage"),
   posted |-> <<>>, log |-> <<>>, thrown |-> FALSE, typeError |-> FALSE,
   calls |-> [l \in ListenerIds |-> 0], seen |-> <<>>,
   applied |-> [op |-> "none"], result |-> [kind |-> "void"]]

getRoomsSnapshot(w) == w.rooms

emit(w) ==
  IF w.thrown THEN w
  ELSE [w EXCEPT
          !.calls = [l \in ListenerIds |->
                       IF l \in w.listeners THEN w.calls[l] + 1 ELSE w.calls[l]],
          !.seen = IF w.listeners # {}
                     THEN Append(@, [snapshot |-> getRoomsSnapshot(w),
                                     stored |-> w.storage])
                     ELSE @,
          !.log = Append(@, "emit")]

persist(w) ==
  IF w.thrown \/ ~isBrowser THEN w
  ELSE IF w.persistFails THEN [w EXCEPT !.thrown = TRUE]
  ELSE [w EXCEPT !.storage = JSONStringify(w.rooms),
                 !.log = Append(@, "persist")]

broadcast(w) ==
  IF w.thrown \/ channel = NULL THEN w
  ELSE IF w.postFails THEN [w EXCEPT !.thrown = TRUE]
  ELSE [w EXCEPT
          !.posted = Append(@, [type |-> "rooms-sync", hasPayload |-> TRUE,
                                payload |-> w.rooms]),
          !.log = Append(@, "broadcast")]

\* The exception of a mutator leaves updateRooms before `rooms = draft`.
throwTypeError(w) == [w EXCEPT !.thrown = TRUE, !.typeError = TRUE]

commit(w, table) ==
  IF w.thrown THEN w
  ELSE [w EXCEPT !.rooms = table, !.log = Append(@, "commit")]

\* updateRooms notifying the listeners before it persists and broadcasts.
updateRooms_emitsFirst(w, mutator) ==
  LET copy == JSONParse(JSONStringify(w.rooms))
      draft == applyMutator(copy, mutator)
  IN IF mutatorThrows(copy, mutator)
       THEN throwTypeError([w EXCEPT !.applied = mutator])
       ELSE broadcast(persist(emit(commit([w EXCEPT !.applied = mutator],
                                          draft))))

updateRooms(w, mutator) ==
  LET copy == JSONParse(JSONStringify(w.rooms))
      draft == applyMutator(copy, mutator)
  IN IF mutatorThrows(copy, mutator)
       THEN throwTypeError([w EXCEPT !.applied = mutator])
       ELSE emit(broadcast(persist(commit([w EXCEPT !.applied = mutator],
                                          draft))))

\* A message handler that keeps the local rooms the payload does not have.
onMessage_merges(w, data) ==
  IF data.type = "rooms-sync" /\ data.hasPayload
    THEN emit(persist(commit(w,
           [r \in (DOMAIN w.rooms) \cup (DOMAIN data.payload) |->
              IF r \in DOMAIN data.payload THEN data.payload[r] ELSE w.rooms[r]])))
    ELSE w

\* A message handler that posts the table it received.
onMessage_rebroadcasts(w, data) ==
  IF data.type = "rooms-sync" /\ data.hasPayload
    THEN emit(broadcast(persist(commit(w, data.payload))))
    ELSE w

\* The channel's message listener.
onMessage(w, data) ==
  IF data.type = "rooms-sync" /\ data.hasPayload
    THEN emit(persist(commit(w, data.payload)))
    ELSE w

return(w, value) == IF w.thrown THEN w ELSE [w EXCEPT !.result = value]

\* ----------------------------------------------------------- operations
\* createRoom that seeds no vote slot for the host.
\* rooms[roomId] of the table in memory is undefined.
IsMissing(table, roomId) == ~HasProperty(DOMAIN table, roomId)

createRoom_noVoteSlot(w, id, options, now) ==
  LET deckValues == resolveDeck(options.deckType, options.customDeck)
      participant == [id |-> options.host.id, name |-> options.host.name,
                      avatarColor |-> options.host.avatarColor,
                      joinedAt |-> options.host.joinedAt]
      room == [id |-> id,
               name |-> IF Trim(options.name) # <<>>
                          THEN Trim(options.name) ELSE SalaSemNome,
               deckType |-> options.deckType,
               deckValues |-> deckValues,
               hostId |-> participant.id,
               participants |-> <<Entry(participant.id, participant)>>,
               votes |-> EmptyTable,
               revealed |-> FALSE,
               createdAt |-> now]
  IN return(updateRooms(w, [op |-> "createRoom", id |-> id, room |-> room]),
            [kind |-> "id", id |-> id])

createRoom(w, id, options, now) ==
  LET deckValues == resolveDeck(options.deckType, options.customDeck)
      participant == [id |-> options.host.id, name |-> options.host.name,
                      avatarColor |-> options.host.avatarColor,
                      joinedAt |-> options.host.joinedAt]
      votes == [k \in {participant.id} |-> NULL]
      room == [id |-> id,
               name |-> IF Trim(options.name) # <<>>
                          THEN Trim(options.name) ELSE SalaSemNome,
               deckType |-> options.deckType,
               deckValues |-> deckValues,
               hostId |-> participant.id,
               participants |-> <<Entry(participant.id, participant)>>,
               votes |-> votes,
               revealed |-> FALSE,
               createdAt |-> now]
  IN return(updateRooms(w, [op |-> "createRoom", id |-> id, room |-> room]),
            [kind |-> "id", id |-> id])

joinRoom(w, roomId, profile) ==
  IF IsMissing(w.rooms, roomId)
    THEN return(w, [kind |-> "join", success |-> FALSE,
                    reason |-> SalaNaoEncontrada])
    ELSE LET w1 == updateRooms(w, [op |-> "joinRoom", roomId |-> roomId,
                                   profile |-> profile])
         IN return(w1, [kind |-> "join", success |-> TRUE,
                        room |-> IF roomId \in DOMAIN w1.rooms
                                   THEN w1.rooms[roomId] ELSE UNDEFINED])

leaveRoom(w, roomId, participantId) ==
  IF IsMissing(w.rooms, roomId) THEN w
  ELSE updateRooms(w, [op |-> "leaveRoom", roomId |-> roomId,
                       participantId |-> participantId])

updateParticipantProfile(w, roomId, participantId, updates) ==
  updateRooms(w, [op |-> "updateParticipantProfile", roomId |-> roomId,
                  participantId |-> participantId, updates |-> updates])

submitVote(w, roomId, participantId, value) ==
  updateRooms(w, [op |-> "submitVote", roomId |-> roomId,
                  participantId |-> participantId, value |-> value])

revealVotes(w, roomId) == updateRooms(w, [op |-> "revealVotes", roomId |-> roomId])

resetVotes(w, roomId) == updateRooms(w, [op |-> "resetVotes", roomId |-> roomId])

removeParticipant(w, roomId, participantId) == leaveRoom(w, roomId, participantId)

transferHost(w, roomId, newHostId) ==
  updateRooms(w, [op |-> "transferHost", roomId |-> roomId,
                  newHostId |-> newHostId])

\* -------------------------------------------------------------- actions
\* A table an earlier page of the origin left in storage: one room, its
\* host and a second participant, the host's card chosen, votes revealed.
SavedTable ==
  LET host == ProfileA
      guest == ProfileB
      room == [id |-> "K7QZ-1A2B", name |-> <<"S","1">>,
               deckType |-> "fibonacci",
               deckValues |-> PRESET_DECKS["fibonacci"],
               hostId |-> host.id,
               participants |-> <<Entry(host.id, host)>>,
               votes |-> [k \in {host.id} |-> NULL],
               revealed |-> FALSE, createdAt |-> 1]
      t1 == applyMutator(EmptyTable, [op |-> "createRoom", id |-> room.id,
                                      room |-> room])
      t2 == applyMutator(t1, [op |-> "joinRoom", roomId |-> room.id,
                              profile |-> guest])
      t3 == applyMutator(t2, [op |-> "submitVote", roomId |-> room.id,
                              participantId |-> host.id, value |-> Str("5")])
  IN applyMutator(t3, [op |-> "revealVotes", roomId |-> room.id])

StoredAtStart ==
  {NoItem, JSONStringify(SavedTable)}

\* SavedTable as another writer of the key left it: deckValues and
\* revealed are whatever JSON values that writer stored.
LegacyTable(deckValues, revealed) ==
  [r \in DOMAIN SavedTable |->
     [SavedTable[r] EXCEPT !.deckValues = deckValues, !.revealed = revealed]]

\* <<deckValues, revealed>> as stored: a string and a number; an array of
\* mixed values and the string "false"; both fields missing; an empty
\* array and null; an object and zero; null and an array.
LegacyFields ==
  { <<JsStr(<<"1", ",", "2">>), JsNum(1)>>,
    <<JsArr(<<JsNum(13), JsNull, JsStr(<<"?">>), JsBool(TRUE), JsObj>>),
      JsStr(<<"f","a","l","s","e">>)>>,
    <<JsUndefined, JsUndefined>>,
    <<JsArr(<<>>), JsNull>>,
    <<JsObj, JsNum(0)>>,
    <<JsNull, JsArr(<<>>)>> }

LegacyStored ==
  {[kind |-> "legacy", value |-> LegacyTable(f[1], f[2])] : f \in LegacyFields}

Init ==
  /\ storage \in StoredAtStart
  /\ rooms = [t \in Tabs |-> loadRooms(storage)]
  /\ listeners = [t \in Tabs |-> {}]
  /\ chan = [p \in Links |-> <<>>]
  /\ sent = [p \in Links |-> <<>>]
  /\ last = [kind |-> "init"]
  /\ ops = 0
  /\ faults = 0
  /\ serialized = TRUE

\* The tabs start on a store that holds a legacy table, an unparsable
\* text, the empty text or nothing.
LoadInit ==
  /\ storage \in LegacyStored \cup {Garbage, NoItem, EmptyText}
  /\ rooms = [t \in Tabs |-> loadRooms(storage)]
  /\ listeners = [t \in Tabs |-> {}]
  /\ chan = [p \in Links |-> <<>>]
  /\ sent = [p \in Links |-> <<>>]
  /\ last = [kind |-> "init"]
  /\ ops = 0
  /\ faults = 0
  /\ serialized = TRUE

\* What can go wrong in a call outside the code: localStorage.setItem or
\* postMessage throws; `faults` counts these.
CallFaults ==
  IF faults < MaxFaults THEN {"none", "setItem", "postMessage"} ELSE {"none"}

HandlerFaults == IF faults < MaxFaults THEN {"none", "setItem"} ELSE {"none"}

\* Tab t has run `call` of the store to its end, leaving the world w.
Finish(t, call, w) ==
  /\ rooms' = [rooms EXCEPT ![t] = w.rooms]
  /\ storage' = w.storage
  /\ chan' = [p \in Links |-> IF p[1] = t THEN chan[p] \o w.posted ELSE chan[p]]
  /\ sent' = [p \in Links |->
                IF p[1] = t
                  THEN sent[p] \o [i \in DOMAIN w.posted |-> w.rooms]
                  ELSE sent[p]]
  /\ last' = [kind |-> "call", tab |-> t, call |-> call, pre |-> rooms[t],
              storedBefore |-> storage, listeners |-> listeners[t],
              log |-> w.log, thrown |-> w.thrown,
              typeError |-> w.typeError, calls |-> w.calls,
              seen |-> w.seen, posted |-> w.posted, applied |-> w.applied,
              result |-> w.result]
  /\ ops' = ops + 1
  /\ faults' = IF w.thrown /\ ~w.typeError THEN faults + 1 ELSE faults
  /\ serialized' =
       IF \E i \in DOMAIN w.log : w.log[i] = "commit"
         THEN /\ serialized
              /\ \A p \in Links : p[1] # t => chan[p] = <<>>
              /\ Len(w.posted) = 1
         ELSE serialized
  /\ UNCHANGED listeners

CreateRoom(t) ==
  /\ ops < MaxOps
  /\ \E in \in CreateRoomInputs, fault \in CallFaults :
       Finish(t, [op |-> "createRoom", id |-> in.id, options |-> in.options],
              createRoom(World(t, fault), in.id, in.options, in.now))

JoinRoom(t) ==
  /\ ops < MaxOps
  /\ \E target \in JoinTargets, fault \in CallFaults :
       LET roomId == target[1]
           profile == target[2]
       IN Finish(t, [op |-> "joinRoom", roomId |-> roomId, profile |-> profile],
                 joinRoom(World(t, fault), roomId, profile))

LeaveRoom(t) ==
  /\ ops < MaxOps
  /\ \E target \in ParticipantTargets, fault \in CallFaults :
       LET roomId == target[1]
           participantId == target[2]
       IN Finish(t, [op |-> "leaveRoom", roomId |-> roomId,
                     participantId |-> participantId],
                 leaveRoom(World(t, fault), roomId, participantId))

RemoveParticipant(t) ==
  /\ ops < MaxOps
  /\ \E target \in ParticipantTargets, fault \in CallFaults :
       LET roomId == target[1]
           participantId == target[2]
       IN Finish(t, [op |-> "removeParticipant", roomId |-> roomId,
                     participantId |-> participantId],
                 removeParticipant(World(t, fault), roomId, participantId))

ProfileUpdates ==
  { [name |-> <<"E", "v", "a">>, avatarColor |-> "#e74c3c"] }

UpdateParticipantProfile(t) ==
  /\ ops < MaxOps
  /\ \E target \in ParticipantTargets, updates \in ProfileUpdates,
        fault \in CallFaults :
       LET roomId == target[1]
           participantId == target[2]
       IN Finish(t, [op |-> "updateParticipantProfile", roomId |-> roomId,
                     participantId |-> participantId, updates |-> updates],
                 updateParticipantProfile(World(t, fault), roomId,
                                          participantId, updates))

SubmitVote(t) ==
  /\ ops < MaxOps
  /\ \E target \in ParticipantTargets, value \in VoteValues \cup {NULL},
        fault \in CallFaults :
       LET roomId == target[1]
           participantId == target[2]
       IN Finish(t, [op |-> "submitVote", roomId |-> roomId,
                     participantId |-> participantId, value |-> value],
                 submitVote(World(t, fault), roomId, participantId, value))

RevealVotes(t) ==
  /\ ops < MaxOps
  /\ \E roomId \in TargetRoomIds, fault \in CallFaults :
       Finish(t, [op |-> "revealVotes", roomId |-> roomId],
              revealVotes(World(t, fault), roomId))

ResetVotes(t) ==
  /\ ops < MaxOps
  /\ \E roomId \in TargetRoomIds, fault \in CallFaults :
       Finish(t, [op |-> "resetVotes", roomId |-> roomId],
              resetVotes(World(t, fault), roomId))

TransferHost(t) ==
  /\ ops < MaxOps
  /\ \E target \in ParticipantTargets, fault \in CallFaults :
       LET roomId == target[1]
           newHostId == target[2]
       IN Finish(t, [op |-> "transferHost", roomId |-> roomId,
                     newHostId |-> newHostId],
                 transferHost(World(t, fault), roomId, newHostId))

\* ------------------------------------------------------ custom decks
\* Every text of at most n characters of the alphabet.
TextsUpTo(alphabet, n) == UNION {[1..k -> alphabet] : k \in 0..n}

\* The example of the deck field: " 1, 2,,  3 \n5".
ExampleDeckText ==
  <<" ","1",","," ","2",",",","," "," ","3"," ","\n","5">>

DeckTexts ==
  TextsUpTo({"1", ",", " ", "\n", "\r"}, MaxTextLen) \cup {ExampleDeckText}

\* The custom deck lists a caller passes to createRoom directly, the
\* omitted argument included.
CustomDecks ==
  {[given |-> FALSE, value |-> <<>>]}
    \cup {[given |-> TRUE, value |-> d] :
            d \in TextsUpTo(TextsUpTo({"1", " ", "U+00A0"}, MaxEntryLen),
                             MaxDeckLen)}

\* createRoom with a custom deck list.
CreateCustomRoom(t) ==
  /\ ops < MaxForms
  /\ \E customDeck \in CustomDecks, fault \in CallFaults :
       LET options == [name |-> <<"S", "1">>, deckType |-> "custom",
                       customDeck |-> customDeck, host |-> ProfileB]
       IN Finish(t, [op |-> "createRoom", id |-> "K7QZ-1A2B", options |-> options],
                 createRoom(World(t, fault), "K7QZ-1A2B", options, 1))

\* createRoom with the list parseCustomDeck makes of a text; the call
\* record keeps the text.
CreateParsedRoom(t) ==
  /\ ops < MaxForms
  /\ \E input \in DeckTexts, fault \in CallFaults :
       LET options == [name |-> <<"S", "1">>, deckType |-> "custom",
                       customDeck |-> [given |-> TRUE,
                                       value |-> parseCustomDeck(input)],
                       host |-> ProfileB]
       IN Finish(t, [op |-> "createRoom", id |-> "M3XD-9F0C",
                     options |-> options, input |-> input],
                 createRoom(World(t, fault), "M3XD-9F0C", options, 2))

\* The message event of tab d for the oldest message posted by tab s.
Deliver(s, d) ==
  /\ chan[<<s, d>>] # <<>>
  /\ \E fault \in HandlerFaults :
       LET data == Head(chan[<<s, d>>])
           w == onMessage(World(d, fault), data)
       IN /\ rooms' = [rooms EXCEPT ![d] = w.rooms]
          /\ storage' = w.storage
          /\ chan' = [p \in Links |->
                        (IF p = <<s, d>> THEN Tail(chan[p]) ELSE chan[p])
                          \o (IF p[1] = d THEN w.posted ELSE <<>>)]
          /\ sent' = [p \in Links |->
                        (IF p = <<s, d>> THEN Tail(sent[p]) ELSE sent[p])
                          \o (IF p[1] = d
                                THEN [i \in DOMAIN w.posted |-> w.rooms]
                                ELSE <<>>)]
          /\ last' = [kind |-> "deliver", tab |-> d, from |-> s,
                      senderTable |-> Head(sent[<<s, d>>]),
                      call |-> [op |-> "message"], pre |-> rooms[d],
                      storedBefore |-> storage, listeners |-> listeners[d],
                      log |-> w.log, thrown |-> w.thrown,
              typeError |-> w.typeError, calls |-> w.calls,
                      seen |-> w.seen, posted |-> w.posted,
                      applied |-> w.applied, result |-> w.result]
          /\ faults' = IF w.thrown THEN faults + 1 ELSE faults
  /\ UNCHANGED <<listeners, ops, serialized>>

subscribeRooms(t, listener) ==
  /\ listener \notin listeners[t]
  /\ listeners' = [listeners EXCEPT ![t] = @ \cup {listener}]
  /\ last' = [kind |-> "subscribe", tab |-> t, listener |-> listener]
  /\ UNCHANGED <<rooms, storage, chan, sent, ops, faults, serialized>>

\* The function subscribeRooms returned for `listener`.
unsubscribe(t, listener) ==
  /\ listener \in listeners[t]
  /\ listeners' = [listeners EXCEPT ![t] = @ \ {listener}]
  /\ last' = [kind |-> "unsubscribe", tab |-> t, listener |-> listener]
  /\ UNCHANGED <<rooms, storage, chan, sent, ops, faults, serialized>>

Next ==
  \/ \E t \in Tabs : CreateRoom(t)
  \/ \E t \in Tabs : JoinRoom(t)
  \/ \E t \in Tabs : LeaveRoom(t)
  \/ \E t \in Tabs : RemoveParticipant(t)
  \/ \E t \in Tabs : UpdateParticipantProfile(t)
  \/ \E t \in Tabs : SubmitVote(t)
  \/ \E t \in Tabs : RevealVotes(t)
  \/ \E t \in Tabs : ResetVotes(t)
  \/ \E t \in Tabs : TransferHost(t)
  \/ \E p \in Links : Deliver(p[1], p[2])
  \/ \E l \in ListenerIds : subscribeRooms(TabOf(l), l)
  \/ \E l \in ListenerIds : unsubscribe(TabOf(l), l)

Spec == Init /\ [][Next]_vars

\* The event loop of a tab eventually runs the handler of a queued message.
FairSpec == Spec /\ \A p \in Links : WF_vars(Deliver(p[1], p[2]))

\* ----------------------------------------------------------- properties
LoadSpec == LoadInit /\ [][Next]_vars

\* The store with createRoom given custom decks: the lists a caller
\* passes and the lists parseCustomDeck makes of a text.
DeckNext ==
  \/ \E t \in Tabs : CreateRoom(t)
  \/ \E t \in Tabs : JoinRoom(t)
  \/ \E t \in Tabs : LeaveRoom(t)
  \/ \E t \in Tabs : RemoveParticipant(t)
  \/ \E t \in Tabs : UpdateParticipantProfile(t)
  \/ \E t \in Tabs : SubmitVote(t)
  \/ \E t \in Tabs : RevealVotes(t)
  \/ \E t \in Tabs : ResetVotes(t)
  \/ \E t \in Tabs : TransferHost(t)
  \/ \E p \in Links : Deliver(p[1], p[2])
  \/ \E l \in ListenerIds : subscribeRooms(TabOf(l), l)
  \/ \E l \in ListenerIds : unsubscribe(TabOf(l), l)
  \/ \E t \in Tabs : CreateCustomRoom(t)
  \/ \E t \in Tabs : CreateParsedRoom(t)

DeckSpec == Init /\ [][DeckNext]_vars

RoomOf(t, roomId) == rooms[t][roomId]

\* Deep equality of two tables: same room ids, and every room equal field
\* by field, the participants compared as maps (key order set aside).
AsMap(ps) == [id \in KeySet(ps) |-> ObjGet(ps, id)]

DeepEqualRoom(a, b) ==
  /\ [a EXCEPT !.participants = <<>>] = [b EXCEPT !.participants = <<>>]
  /\ AsMap(a.participants) = AsMap(b.participants)

DeepEqual(a, b) ==
  /\ DOMAIN a = DOMAIN b
  /\ \A r \in DOMAIN a : DeepEqualRoom(a[r], b[r])

IsPrefix(s, t) == Len(s) <= Len(t) /\ SubSeq(t, 1, Len(s)) = s

Committed(log) == \E i \in DOMAIN log : log[i] = "commit"

NoneInFlight == \A p \in Links : chan[p] = <<>>

HostAndVotesOk(room) ==
  /\ KeySet(room.participants) \subseteq DOMAIN room.votes
  /\ room.hostId \in KeySet(room.participants)

TableOk(table) ==
  \A r \in DOMAIN table :
    HostAndVotesOk(table[r]) /\ Len(table[r].participants) > 0

\* C1: in every reachable state, in every tab, every room of the table has
\* a vote slot for each participant and a host that is a participant.
C1_HostAndVotes ==
  \A t \in Tabs : \A r \in DOMAIN rooms[t] : HostAndVotesOk(RoomOf(t, r))

\* C2: in every reachable state, in every tab, no room of the table has an
\* empty participants map.
C2_NoEmptyRoom ==
  \A t \in Tabs : \A r \in DOMAIN rooms[t] : Len(RoomOf(t, r).participants) > 0

\* The last participant of a room has just left it and the room is gone.
C2_Witness ==
  /\ last.kind = "call"
  /\ last.call.op \in {"leaveRoom", "removeParticipant"}
  /\ last.call.roomId \in DOMAIN last.pre
  /\ KeySet(last.pre[last.call.roomId].participants) = {last.call.participantId}
  /\ last.call.roomId \notin DOMAIN rooms[last.tab]

\* C3: when a rooms-sync message has been handled by a tab, that tab's
\* table is deep-equal to the sender's table as it was right after the
\* mutation, and every listener registered in the tab has run at least once.
C3_DeliveryReplacesAndNotifies ==
  last.kind = "deliver" =>
    /\ DeepEqual(rooms[last.tab], last.senderTable)
    /\ \A l \in last.listeners : last.calls[l] >= 1

\* C4: when every commit so far posted its message and no tab committed
\* while another tab's message was in flight, then with no message in
\* flight all tabs hold deep-equal tables.
C4_SerializedConvergence ==
  (serialized /\ NoneInFlight) =>
    \A a \in Tabs : \A b \in Tabs : DeepEqual(rooms[a], rooms[b])

\* A delivery has just changed the receiver's table in a serialized run.
C4_Witness ==
  /\ serialized
  /\ NoneInFlight
  /\ last.kind = "deliver"
  /\ last.pre # rooms[last.tab]

\* C5: a message is put on a link only by a mutation call of the link's
\* sending tab, one per call, never by the handling of an inbound message;
\* and the messages in flight eventually drain for good.
C5_OnlyCallsPost ==
  \A p \in Links :
    Len(chan'[p]) > Len(chan[p]) =>
      /\ last'.kind = "call"
      /\ last'.tab = p[1]
      /\ Len(chan'[p]) = Len(chan[p]) + 1

C5_NoEchoAndDrain == [][C5_OnlyCallsPost]_vars /\ <>[]NoneInFlight

\* A message has just been handled, nothing was posted and none is left.
C5_Witness ==
  /\ last.kind = "deliver"
  /\ Committed(last.log)
  /\ last.posted = <<>>
  /\ NoneInFlight

\* C6: every commit, by a call or by an inbound message, also one whose
\* write to storage fails, runs each registered listener exactly once and
\* runs no unregistered listener.
C6_EveryCommitNotifiesOnce ==
  (last.kind \in {"call", "deliver"} /\ Committed(last.log)) =>
    \A l \in ListenerIds :
      last.calls[l] = IF l \in last.listeners THEN 1 ELSE 0

\* C7: the effects of a mutation call happen in the order commit, persist,
\* broadcast, emit, all four when the call ends normally after a commit;
\* and what a listener reads when it runs is the new table, with the
\* storage item already holding the serialization of that table.
C7_EffectOrder ==
  last.kind = "call" =>
    /\ IsPrefix(last.log, <<"commit", "persist", "broadcast", "emit">>)
    /\ (Committed(last.log) /\ ~last.thrown) =>
         last.log = <<"commit", "persist", "broadcast", "emit">>
    /\ \A i \in DOMAIN last.seen :
         /\ last.seen[i].snapshot = rooms[last.tab]
         /\ last.seen[i].snapshot = applyMutator(last.pre, last.applied)
         /\ last.seen[i].stored = JSONStringify(last.seen[i].snapshot)

\* A listener has just run in a call that changed the table and the item.
C7_Witness ==
  /\ last.kind = "call"
  /\ last.seen # <<>>
  /\ last.pre # rooms[last.tab]
  /\ last.storedBefore # storage

\* C8: after a mutation call in which the storage write or the post
\* failed, the tab's table is the mutation's result and satisfies the room
\* invariants.
C8_FailureKeepsCommit ==
  (last.kind = "call" /\ last.thrown /\ ~last.typeError) =>
    /\ rooms[last.tab] = applyMutator(last.pre, last.applied)
    /\ TableOk(rooms[last.tab])

\* C9: no mutation call ends by throwing to its caller.
C9_FailureNotPropagated == last.kind = "call" => ~last.thrown

\* C10: joinRoom with a roomId absent from the table returns the failure
\* result without throwing, changes neither the table nor the storage item,
\* posts nothing and runs no listener.
C10_JoinMissingRoom ==
  (/\ last.kind = "call"
   /\ last.call.op = "joinRoom"
   /\ last.call.roomId \notin DOMAIN last.pre) =>
    /\ ~last.thrown
    /\ last.result = [kind |-> "join", success |-> FALSE,
                      reason |-> SalaNaoEncontrada]
    /\ rooms[last.tab] = last.pre
    /\ storage = last.storedBefore
    /\ last.posted = <<>>
    /\ last.log = <<>>
    /\ \A l \in ListenerIds : last.calls[l] = 0


\* The last step was a call of `op` by a tab whose table had the room.
CalledOnRoom(op) ==
  /\ last.kind = "call"
  /\ last.call.op = op
  /\ last.call.roomId \in DOMAIN last.pre

RoomBefore == last.pre[last.call.roomId]
RoomAfter == rooms[last.tab][last.call.roomId]
RoomKept == last.call.roomId \in DOMAIN rooms[last.tab]

\* C11: joinRoom on an existing room: for an id already in the room the
\* participant keeps its joinedAt and its vote and takes the passed name
\* and avatarColor; for a new id the participant is added with the passed
\* joinedAt and a null vote; a call that returns, returns success with the
\* room as it is after the commit.
C11_JoinUpsert ==
  CalledOnRoom("joinRoom") =>
    LET p == last.call.profile
        existed == p.id \in KeySet(RoomBefore.participants)
    IN /\ RoomKept
       /\ p.id \in KeySet(RoomAfter.participants)
       /\ p.id \in DOMAIN RoomAfter.votes
       /\ ObjGet(RoomAfter.participants, p.id) =
            [id |-> p.id, name |-> p.name, avatarColor |-> p.avatarColor,
             joinedAt |-> IF existed
                            THEN ObjGet(RoomBefore.participants, p.id).joinedAt
                            ELSE p.joinedAt]
       /\ RoomAfter.votes[p.id] =
            IF existed THEN RoomBefore.votes[p.id] ELSE NULL
       /\ Cardinality(KeySet(RoomAfter.participants)) =
            Len(RoomAfter.participants)
       /\ ~last.thrown =>
            last.result = [kind |-> "join", success |-> TRUE, room |-> RoomAfter]

\* C12: submitVote with null for a participant of a revealed room leaves
\* that participant's vote null and the room not revealed.
C12_ClearInvalidatesReveal ==
  (/\ CalledOnRoom("submitVote")
   /\ last.call.value = NULL
   /\ RoomBefore.revealed
   /\ last.call.participantId \in KeySet(RoomBefore.participants)) =>
    /\ RoomKept
    /\ RoomAfter.votes[last.call.participantId] = NULL
    /\ RoomAfter.revealed = FALSE

\* A participant of a revealed room has just cleared a chosen card.
C12_Witness ==
  /\ CalledOnRoom("submitVote")
  /\ last.call.value = NULL
  /\ RoomBefore.revealed
  /\ last.call.participantId \in KeySet(RoomBefore.participants)
  /\ RoomBefore.votes[last.call.participantId] # NULL


\* The last step was a leaveRoom or removeParticipant call by a tab whose
\* table had the room.
LeftRoom ==
  /\ last.kind = "call"
  /\ last.call.op \in {"leaveRoom", "removeParticipant"}
  /\ last.call.roomId \in DOMAIN last.pre

\* C13: when the host of a room with another participant leaves or is
\* removed, the room stays and its hostId is the id of one of the
\* remaining participants, not the departed host and not undefined.
C13_HostReassigned ==
  (/\ LeftRoom
   /\ RoomBefore.hostId = last.call.participantId
   /\ last.call.participantId \in KeySet(RoomBefore.participants)
   /\ KeySet(RoomBefore.participants) # {last.call.participantId}) =>
    /\ RoomKept
    /\ RoomAfter.hostId # last.call.participantId
    /\ RoomAfter.hostId # UNDEFINED
    /\ RoomAfter.hostId
         \in KeySet(RoomBefore.participants) \ {last.call.participantId}
    /\ RoomAfter.hostId \in KeySet(RoomAfter.participants)

\* The host of a room has just left two other participants behind.
C13_Witness ==
  /\ LeftRoom
  /\ RoomBefore.hostId = last.call.participantId
  /\ Cardinality(KeySet(RoomBefore.participants) \ {last.call.participantId}) = 2
  /\ RoomKept


\* C14: leaveRoom (and removeParticipant, which calls it) on a room that
\* contains the participant removes that participant's entry from
\* participants and from votes and nothing else of them; the revealed flag
\* is unchanged; the room is deleted exactly when no participant remains.
C14_LeaveRemovesExactlyOne ==
  (LeftRoom /\ last.call.participantId \in KeySet(RoomBefore.participants)) =>
    LET pid == last.call.participantId
        rest == KeySet(RoomBefore.participants) \ {pid}
    IN /\ RoomKept <=> rest # {}
       /\ RoomKept =>
            /\ KeySet(RoomAfter.participants) = rest
            /\ Len(RoomAfter.participants) = Cardinality(rest)
            /\ \A id \in rest : ObjGet(RoomAfter.participants, id)
                                  = ObjGet(RoomBefore.participants, id)
            /\ DOMAIN RoomAfter.votes = DOMAIN RoomBefore.votes \ {pid}
            /\ \A id \in DOMAIN RoomAfter.votes :
                 RoomAfter.votes[id] = RoomBefore.votes[id]
            /\ RoomAfter.revealed = RoomBefore.revealed

\* A participant has just left a revealed room in which a remaining
\* participant holds a card.
C14_Witness ==
  /\ LeftRoom
  /\ last.call.participantId \in KeySet(RoomBefore.participants)
  /\ RoomKept
  /\ RoomBefore.revealed
  /\ \E id \in DOMAIN RoomAfter.votes : RoomAfter.votes[id] # NULL


\* The last step was a createRoom call.
CreatedRoom == last.kind = "call" /\ last.call.op = "createRoom"

\* C15: createRoom adds one room to the caller's table, under the id it
\* returns, and changes no other room; the room's participants and votes
\* have the host's id as their only key, the vote is null, hostId is the
\* host's id and revealed is false; a fibonacci room has the 13-value
\* catalog 0,1,2,3,5,8,13,21,34,55,89,?,coffee as its deckValues.
C15_CreateRoomSeedsHost ==
  CreatedRoom =>
    LET id == last.call.id
        host == last.call.options.host
        table == rooms[last.tab]
    IN /\ DOMAIN table = DOMAIN last.pre \cup {id}
       /\ \A r \in DOMAIN last.pre \ {id} : table[r] = last.pre[r]
       /\ ~last.thrown => last.result = [kind |-> "id", id |-> id]
       /\ table[id].id = id
       /\ KeySet(table[id].participants) = {host.id}
       /\ Len(table[id].participants) = 1
       /\ DOMAIN table[id].votes = {host.id}
       /\ table[id].votes[host.id] = NULL
       /\ table[id].hostId = host.id
       /\ table[id].revealed = FALSE
       /\ last.call.options.deckType = "fibonacci" =>
            table[id].deckValues =
              << <<"0">>, <<"1">>, <<"2">>, <<"3">>, <<"5">>, <<"8">>,
                 <<"1","3">>, <<"2","1">>, <<"3","4">>, <<"5","5">>,
                 <<"8","9">>, <<"?">>, <<COFFEE>> >>

\* A fibonacci room has just been created, under a fresh id, in a table
\* that already held a room.
C15_Witness ==
  /\ CreatedRoom
  /\ ~last.thrown
  /\ last.call.options.deckType = "fibonacci"
  /\ DOMAIN last.pre # {}
  /\ last.call.id \notin DOMAIN last.pre
  /\ Cardinality(DOMAIN rooms[last.tab]) = 2


\* C16: revealVotes on an existing room sets revealed to true whatever the
\* votes are, all null included, and changes nothing else in the room.
C16_RevealUnconditional ==
  CalledOnRoom("revealVotes") =>
    /\ RoomKept
    /\ RoomAfter.revealed = TRUE
    /\ RoomAfter = [RoomBefore EXCEPT !.revealed = TRUE]

\* Votes have just been revealed in a room where nobody had chosen a card.
C16_Witness ==
  /\ CalledOnRoom("revealVotes")
  /\ ~RoomBefore.revealed
  /\ \A k \in DOMAIN RoomBefore.votes : RoomBefore.votes[k] = NULL
  /\ RoomKept

\* C17: resetVotes on an existing room sets every vote, and with it the
\* vote of every participant, to null and revealed to false; the vote
\* keys, the participants and the hostId are unchanged.
C17_ResetClearsAll ==
  CalledOnRoom("resetVotes") =>
    /\ RoomKept
    /\ DOMAIN RoomAfter.votes = DOMAIN RoomBefore.votes
    /\ \A k \in DOMAIN RoomAfter.votes : RoomAfter.votes[k] = NULL
    /\ \A p \in KeySet(RoomAfter.participants) :
         p \in DOMAIN RoomAfter.votes /\ RoomAfter.votes[p] = NULL
    /\ RoomAfter.revealed = FALSE
    /\ RoomAfter.participants = RoomBefore.participants
    /\ RoomAfter.hostId = RoomBefore.hostId

\* C18: transferHost sets hostId to newHostId when newHostId is a key of
\* the room's participants and leaves it unchanged when it is not; it
\* never changes participants, votes or revealed.
C18_TransferOnlyToParticipant ==
  CalledOnRoom("transferHost") =>
    /\ RoomKept
    /\ RoomAfter.hostId =
         IF last.call.newHostId \in KeySet(RoomBefore.participants)
           THEN last.call.newHostId ELSE RoomBefore.hostId
    /\ RoomAfter.participants = RoomBefore.participants
    /\ RoomAfter.votes = RoomBefore.votes
    /\ RoomAfter.revealed = RoomBefore.revealed


\* C19: in every reachable state, the table built at startup from a store
\* whose rooms have a malformed deck-values field included, every room's
\* deckValues is a non-empty sequence.
C19_DeckNeverEmpty ==
  \A t \in Tabs : \A r \in DOMAIN rooms[t] : Len(rooms[t][r].deckValues) > 0


\* C20: the deckValues of every room createRoom creates, from a preset or
\* from any custom deck list, are pairwise distinct.
C20_DeckValuesDistinct ==
  CreatedRoom =>
    LET deck == rooms[last.tab][last.call.id].deckValues
    IN \A i, j \in DOMAIN deck : i # j => deck[i] # deck[j]


\* An entry without the whitespace around it.
Strip(s) ==
  LET inked == {i \in DOMAIN s : s[i] \notin Whitespace}
  IN IF inked = {} THEN <<>>
     ELSE SubSeq(s, CHOOSE a \in inked : \A i \in inked : a <= i,
                    CHOOSE b \in inked : \A i \in inked : b >= i)

\* A text cut at every comma and every newline.
RECURSIVE Fields(_)
Fields(s) ==
  LET cuts == {i \in DOMAIN s : s[i] \in {",", "\n"}}
  IN IF cuts = {} THEN <<s>>
     ELSE LET c == CHOOSE a \in cuts : \A i \in cuts : a <= i
          IN <<SubSeq(s, 1, c - 1)>> \o Fields(SubSeq(s, c + 1, Len(s)))

IsInked(s) == s # <<>>

\* The deck a list of entries stands for: the entries stripped, the empty
\* ones dropped, in order; the placeholder deck when none is left.
ExpectedDeck(entries) ==
  LET usable == SelectSeq([i \in DOMAIN entries |-> Strip(entries[i])], IsInked)
  IN IF usable = <<>> THEN << <<"?">> >> ELSE usable

\* The last step created a custom room, from a text or from a list.
CreatedCustomRoom ==
  /\ last.kind = "call"
  /\ last.call.op = "createRoom"
  /\ last.call.options.deckType = "custom"

\* The list of the last creation is the one parseCustomDeck made of a text.
FromText == "input" \in DOMAIN last.call

\* The entries supplied to the last creation.
SuppliedEntries ==
  IF FromText
    THEN Fields(last.call.input)
    ELSE IF last.call.options.customDeck.given
      THEN last.call.options.customDeck.value
      ELSE <<>>

\* C21: the deckValues of a custom room are the supplied entries, each
\* trimmed, the empty ones dropped, in their original order, and the
\* single-element placeholder deck when no usable entry remains; the text
\* " 1, 2,,  3 \n5", split on commas and newlines, gives 1,2,3,5.
C21_CustomDeckSanitized ==
  CreatedCustomRoom =>
    LET deck == rooms[last.tab][last.call.id].deckValues
    IN /\ deck = ExpectedDeck(SuppliedEntries)
       /\ (/\ FromText
           /\ last.call.input = ExampleDeckText) =>
            deck = << <<"1">>, <<"2">>, <<"3">>, <<"5">> >>

\* A room has just been created from the example text.
C21_Witness ==
  /\ CreatedCustomRoom
  /\ FromText
  /\ last.call.input = ExampleDeckText
  /\ Len(rooms[last.tab][last.call.id].deckValues) = 4

\* A custom room has just got the placeholder deck, its list holding only
\* blank entries.
C21_Fallback ==
  /\ CreatedCustomRoom
  /\ ~FromText
  /\ last.call.options.customDeck.given
  /\ Len(last.call.options.customDeck.value) = 2
  /\ rooms[last.tab][last.call.id].deckValues = << <<"?">> >>

\* A newline between two entries of the text has just cut them apart.
C21_NewlineCut ==
  /\ CreatedCustomRoom
  /\ FromText
  /\ last.call.input = <<"1", " ", "\n", "1">>
  /\ Len(rooms[last.tab][last.call.id].deckValues) = 2


\* The room as sanitised has an array of strings and a boolean.
WellShaped(room) ==
  /\ room.deckValues.t = "array"
  /\ \A i \in DOMAIN room.deckValues.items : room.deckValues.items[i].t = "string"
  /\ room.revealed.t = "boolean"

\* C22: building the table at startup never fails: an absent, empty or
\* unparsable stored value gives the empty table, and every room of a
\* parsable stored table comes out with deckValues an array of strings and
\* revealed a boolean, whatever the two fields held in storage.
C22_LoadSanitizes ==
  last.kind = "init" =>
    LET outcome == LoadOutcome(storage)
    IN /\ ~outcome.thrown
       /\ ~IsParsable(storage) => \A t \in Tabs : rooms[t] = EmptyTable
       /\ IsParsable(storage) =>
            /\ DOMAIN outcome.value = DOMAIN storage.value
            /\ \A r \in DOMAIN outcome.value : WellShaped(outcome.value[r])
       /\ \A t \in Tabs :
            /\ DOMAIN rooms[t] = DOMAIN outcome.value
            /\ \A r \in DOMAIN rooms[t] :
                 /\ rooms[t][r].revealed = outcome.value[r].revealed.b
                 /\ Len(rooms[t][r].deckValues)
                      = Len(outcome.value[r].deckValues.items)
                 /\ \A i \in DOMAIN rooms[t][r].deckValues :
                      rooms[t][r].deckValues[i]
                        = outcome.value[r].deckValues.items[i].s

\* A tab has started on a table whose deck holds a number, null, a boolean
\* and an object and whose revealed is the string "false": the deck is
\* five strings and revealed is true.
C22_Witness ==
  /\ last.kind = "init"
  /\ IsParsable(storage)
  /\ \E r \in DOMAIN storage.value :
       /\ storage.value[r].revealed.t = "string"
       /\ IsArray(storage.value[r].deckValues)
       /\ \E i \in DOMAIN storage.value[r].deckValues.items :
            storage.value[r].deckValues.items[i].t = "number"
       /\ rooms[1][r].revealed = TRUE
       /\ rooms[1][r].deckValues[1] = <<"1", "3">>
       /\ rooms[1][r].deckValues[2] = <<"n", "u", "l", "l">>
       /\ Len(rooms[1][r].deckValues) = 5

\* A tab has started on an unparsable text, with the empty table.
C22_Unparsable ==
  last.kind = "init" /\ storage = Garbage /\ rooms[1] = EmptyTable


\* The last step was a call, other than createRoom and joinRoom, whose
\* room was missing from the caller's table or whose participant was
\* missing from the room.
TargetsMissing ==
  /\ last.kind = "call"
  /\ last.call.op \in {"leaveRoom", "removeParticipant", "updateParticipantProfile",
                       "submitVote", "revealVotes", "resetVotes", "transferHost"}
  /\ \/ last.call.roomId \notin DOMAIN last.pre
     \/ /\ last.call.op \in {"leaveRoom", "removeParticipant",
                             "updateParticipantProfile", "submitVote"}
        /\ last.call.participantId \notin KeySet(RoomBefore.participants)
     \/ /\ last.call.op = "transferHost"
        /\ last.call.newHostId \notin KeySet(RoomBefore.participants)

\* The caller's table after such a call is the table before it.
CallerTableKept == TargetsMissing => rooms[last.tab] = last.pre

\* This step hands another tab the one message such a call has just posted.
NoOpDelivered ==
  /\ TargetsMissing
  /\ Len(last.posted) = 1
  /\ last'.kind = "deliver"
  /\ last'.from = last.tab
  /\ Len(chan[<<last.tab, last'.tab>>]) = 1

\* C23: a call of leaveRoom, removeParticipant, updateParticipantProfile,
\* submitVote, revealVotes, resetVotes or transferHost on a missing room or
\* a missing participant is a silent no-op: the caller's table stays
\* deep-equal to what it was, and no other tab's table changes as a
\* consequence of the call.
C23_SilentNoOp ==
  [][/\ CallerTableKept'
     /\ NoOpDelivered => rooms'[last'.tab] = rooms[last'.tab]]_vars


\* Two calls have been made and neither failed; the second one committed
\* while a message of the first was still queued, so each of the two tabs
\* committed before it received the other's message.
ConcurrentCommits == ops = 2 /\ faults = 0 /\ ~serialized

\* C24: when two tabs each commit a mutation before receiving the other's
\* rooms-sync message, then once both messages have been delivered the
\* tabs hold the same table: one change wins on both tabs.
C24_ConcurrentCommitsConverge ==
  (ConcurrentCommits /\ NoneInFlight) =>
    \A s, t \in Tabs : DeepEqual(rooms[s], rooms[t])


\* C25: in every state reachable through the operations and the
\* deliveries between tabs, the keys of votes are the keys of participants
\* in every room: no vote slot exists for an id that is not a participant.
C25_VoteKeysAreParticipants ==
  \A t \in Tabs : \A r \in DOMAIN rooms[t] :
    DOMAIN rooms[t][r].votes = KeySet(rooms[t][r].participants)


\* The fields of a room that are set at creation.
CreationFields(room) ==
  [id |-> room.id, name |-> room.name, deckType |-> room.deckType,
   deckValues |-> room.deckValues, createdAt |-> room.createdAt]

\* Every room of the caller's table before the call, target apart, is
\* still there and deep-equal, and no room but the target was added.
OthersKept(target) ==
  /\ DOMAIN rooms[last.tab] \ {target} = DOMAIN last.pre \ {target}
  /\ \A r \in DOMAIN last.pre \ {target} :
       DeepEqualRoom(rooms[last.tab][r], last.pre[r])

\* C26: a mutation operation called with roomId R leaves every other room
\* of the caller's table deep-equal to what it was; createRoom with a
\* fresh id leaves every existing room unchanged; within R the fields id,
\* name, deckType, deckValues and createdAt are those of its creation.
C26_FrameOfMutation ==
  last.kind = "call" =>
    IF last.call.op = "createRoom"
      THEN last.call.id \notin DOMAIN last.pre => OthersKept(last.call.id)
      ELSE /\ OthersKept(last.call.roomId)
           /\ (last.call.roomId \in DOMAIN last.pre /\ RoomKept) =>
                CreationFields(RoomAfter) = CreationFields(RoomBefore)

\* An operation has just changed its room in a table that holds another
\* room.
C26_Witness ==
  /\ last.kind = "call"
  /\ last.call.op # "createRoom"
  /\ last.call.roomId \in DOMAIN last.pre
  /\ Cardinality(DOMAIN last.pre) = 2
  /\ RoomKept
  /\ RoomAfter # RoomBefore

\* A room has just been created under a fresh id beside an existing room.
C26_CreatedBeside ==
  /\ CreatedRoom
  /\ last.call.id \notin DOMAIN last.pre
  /\ DOMAIN last.pre # {}

====
